---- MODULE Spec2Model ----
(***************************************************************************)
(* NIP-41 key rotation (src/src/keys.rs): the chain of LevelKeys built by  *)
(* KeyManager, the KeyState cursor moved by invalidate(), and the public   *)
(* verification routine KeyManager::verify.                                *)
(*                                                                         *)
(* The elliptic curve is a cyclic group of prime order CurveOrder.  A      *)
(* point is written as its multiple of the generator G (the point s*G is   *)
(* the number s, the point at infinity is 0), so point addition and the    *)
(* addition of secret scalars are both addition modulo CurveOrder, as on   *)
(* secp256k1.  A point P and its negation -P share their x coordinate and  *)
(* differ in the parity of y.  SHA-256 is a fixed mixing function into     *)
(* 0..HashSpace-1, where HashSpace (2^256 in the library) is larger than   *)
(* CurveOrder, so a digest can fail to be a scalar.                        *)
(***************************************************************************)
EXTENDS Integers, Sequences, FiniteSets, TLC

\* Order of the curve group (secp256k1: n, a prime just below 2^256).
CurveOrder == 1021

\* Number of values of a digest (sha256: 2^256), the next power of two.
HashSpace == 1024

\* keys.rs:29  pub const N_DEFAULT: usize = 256
N_DEFAULT == 256

\* Master seeds tried by generate_from_master_seed.
MaxSeed == 8

\* invalidate() calls made after the levels ran out.
MaxFailedCalls == 2

\* Wrong third arguments handed to verify, besides the keys of the chain.
MaxProbe == 2

\* Words tried in a mnemonic: 0..MaxWord, of which 0..WordlistSize-1 are in the list.
MaxWord == 4

\* Callers that share one KeyState.
MaxCaller == 2

\* Levels of the chain the callers share, at most.
SharedLevels == 4

\* Secret keys the shared chain is built from: 1..MaxSharedSecret.
MaxSharedSecret == 2

VARIABLES
    phase,        \* "start" | "ready" (a KeyState exists) | "failed" (Err returned) | "panicked"
    seed,         \* the master seed the KeyState was generated from (0: none yet)
    k,            \* KeyState.k: the levels, a function 0..N-1 -> LevelKeys
    n,            \* KeyState.n: the current level
    ret,          \* what the last call returned to its caller
    succ,         \* invalidate() calls that returned Ok so far
    fails,        \* invalidate() calls that returned Err so far
    invalidated,  \* the history the last successful invalidate() returned
    shown_vis,    \* levels whose visible pubkey some call has returned
    shown_hid,    \* levels whose hidden pubkey some call has returned
    hist_levels,  \* levels whose key some returned history has listed
    reveal_log    \* per successful invalidate(): its caller and the level it invalidated

\* What the callers have been handed so far.
handed == <<shown_vis, shown_hid, hist_levels, reveal_log>>

vars == <<phase, seed, k, n, ret, succ, fails, invalidated, handed>>

Seeds == 1..MaxSeed

\* Result<T, E> and Option: ok tells which, v is the value.
Ok(v) == [ok |-> TRUE, v |-> v]
Err == [ok |-> FALSE, v |-> 0]

--------------------------------------------------------------------------
(* secp256k1: keys, points, scalars *)

\* XOnlyPublicKey values: the x coordinates of the curve's points.  P and -P
\* have the same one, named here by the smaller of the two multiples.
XOnlyKeys == 1..((CurveOrder - 1) \div 2)

\* PublicKey::x_only_public_key().0 : drops the parity of the point.
XOnly(pt) == IF 2 * pt < CurveOrder THEN pt ELSE CurveOrder - pt

\* SecretKey::x_only_public_key(&secp).0 : the x coordinate of sk*G.
x_only_public_key(sk) == XOnly(sk)

\* The parity of the y coordinate of a point; -P has the other parity.
ParityOf(pt) == IF pt % 2 = 1 THEN "Odd" ELSE "Even"

\* XOnlyPublicKey::public_key(parity): the point with this x and that parity.
public_key(x, parity) == IF ParityOf(x) = parity THEN x ELSE CurveOrder - x

\* Scalar::from_be_bytes: Err when the 32 bytes are not below the curve order.
Scalar_from_be_bytes(hash) == IF hash < CurveOrder THEN Ok(hash) ELSE Err

\* SecretKey::add_tweak: Err when the sum is zero.
add_tweak(sk, diff) ==
    LET sum == (sk + diff) % CurveOrder
    IN  IF sum = 0 THEN Err ELSE Ok(sum)

\* PublicKey::add_exp_tweak: P + diff*G, Err when it is the point at infinity.
add_exp_tweak(pt, diff) ==
    LET sum == (pt + diff) % CurveOrder
    IN  IF sum = 0 THEN Err ELSE Ok(sum)

--------------------------------------------------------------------------
(* bip32: hardened derivation *)

\* XPrv::derive_from_path(&master_seed, "m/44'/1237'/41'"): Err for a seed
\* whose digest is no valid key.
derive_from_path(master_seed) ==
    LET il == (master_seed * 41 + 17) % HashSpace
    IN  IF il = 0 \/ il >= CurveOrder THEN Err ELSE Ok(il)

\* XPrv::derive_child(ChildNumber::new(i, true)): child = parent + IL, Err
\* when IL is no scalar or the child key is zero.
derive_child(parent, i) ==
    LET il == ((parent * 7 + 3) * (i * 41 + 5) + i + 17) % HashSpace
        child == (il + parent) % CurveOrder
    IN  IF il >= CurveOrder \/ child = 0 THEN Err ELSE Ok(child)

--------------------------------------------------------------------------
(* LevelKeys *)

\* A KeyPair is written as its secret key.
vis_pubkey(lk) == x_only_public_key(lk.vis)

hid_pubkey(lk) == x_only_public_key(lk.hid)

--------------------------------------------------------------------------
(* KeyManager *)

\* sha256 of the two serialized x coordinates, pk1's bytes first.
hash_of_two_pubkeys(pk1, pk2) ==
    ((pk1 * 3 + 11) * (pk2 * 53 + 29) + pk1 + 89) % HashSpace

\* Mutant of next_level: the hidden key's bytes are hashed first.
next_level_hidden_first(prev, sk_next_hid) ==
    LET hash == hash_of_two_pubkeys(x_only_public_key(sk_next_hid), vis_pubkey(prev))
        diff == Scalar_from_be_bytes(hash)
        sk_next_vis == add_tweak(sk_next_hid, diff.v)
    IN  IF ~diff.ok \/ ~sk_next_vis.ok
        THEN Err
        ELSE Ok([vis |-> sk_next_vis.v, hid |-> sk_next_hid])

\* next_level: Ok(LevelKeys), or Err where one of its two unwrap() panics.
next_level(prev, sk_next_hid) ==
    LET hash == hash_of_two_pubkeys(vis_pubkey(prev), x_only_public_key(sk_next_hid))
        diff == Scalar_from_be_bytes(hash)
        sk_next_vis == add_tweak(sk_next_hid, diff.v)
    IN  IF ~diff.ok \/ ~sk_next_vis.ok
        THEN Err
        ELSE Ok([vis |-> sk_next_vis.v, hid |-> sk_next_hid])

\* The loop of generate_levels_internal over the levels lo..hi-1 (run as its
\* first half followed by its second half); Err when next_level panics.
RECURSIVE push_levels(_, _, _, _)
push_levels(sk, keys, lo, hi) ==
    IF lo >= hi
    THEN Ok(keys)
    ELSE IF hi = lo + 1
    THEN LET next == next_level(keys[lo - 1], sk[lo])
         IN  IF ~next.ok THEN Err ELSE Ok(keys @@ (lo :> next.v))
    ELSE LET mid == (lo + hi) \div 2
             first == push_levels(sk, keys, lo, mid)
         IN  IF ~first.ok THEN Err ELSE push_levels(sk, first.v, mid, hi)

\* generate_levels_internal: sk is a function 0..levels-1 -> SecretKey.
\* Ok([k, n]) is the KeyState; Err is a panic inside next_level.
generate_levels_internal(sk) ==
    LET current == [vis |-> sk[0], hid |-> sk[0]]
        keys == push_levels(sk, (0 :> current), 1, Cardinality(DOMAIN sk))
    IN  IF ~keys.ok
        THEN Err
        ELSE Ok([k |-> keys.v, n |-> Cardinality(DOMAIN sk) - 1])

\* The loop of generate_from_master_seed over the child numbers lo..hi-1 (run
\* as its first half followed by its second half): Ok(sk), or Err for a
\* bip32 error (the ? operators).
RECURSIVE derive_children(_, _, _, _)
derive_children(intermediate_key, sk, lo, hi) ==
    IF lo >= hi
    THEN Ok(sk)
    ELSE IF hi = lo + 1
    THEN LET child == derive_child(intermediate_key, lo)
         IN  IF ~child.ok THEN Err ELSE Ok(sk @@ (lo :> child.v))
    ELSE LET mid == (lo + hi) \div 2
             first == derive_children(intermediate_key, sk, lo, mid)
         IN  IF ~first.ok THEN Err ELSE derive_children(intermediate_key, first.v, mid, hi)

\* A derivation loop that stops one child early.
derive_secret_keys_one_less(master_seed) ==
    LET intermediate_key == derive_from_path(master_seed)
    IN  IF ~intermediate_key.ok
        THEN Err
        ELSE derive_children(intermediate_key.v, <<>>, 0, N_DEFAULT - 1)

\* The hidden secret keys of the N_DEFAULT levels, a function 0..N_DEFAULT-1.
derive_secret_keys(master_seed) ==
    LET intermediate_key == derive_from_path(master_seed)
    IN  IF ~intermediate_key.ok
        THEN Err
        ELSE derive_children(intermediate_key.v, <<>>, 0, N_DEFAULT)

\* generate_from_master_seed: "Ok" with the KeyState, "Bip32" for the error
\* returned, "panic" for a panic in next_level.
generate_from_master_seed(master_seed) ==
    LET sk == derive_secret_keys(master_seed)
    IN  IF ~sk.ok
        THEN [res |-> "Bip32"]
        ELSE LET state == generate_levels_internal(sk.v)
             IN  IF ~state.ok
                 THEN [res |-> "panic"]
                 ELSE [res |-> "Ok", state |-> state.v]

\* ---- bip39 ----
\* A mnemonic is two words of a four-word list: three bits of entropy and
\* one checksum bit, which is the low bit of the last word (bip39's 12 words
\* of a 2048-word list carry 128 bits of entropy and 4 checksum bits).
WordlistSize == 4

\* The range of the master seeds Mnemonic::to_seed produces.
SeedSpace == 8

Entropies == 0..((WordlistSize * WordlistSize) \div 2 - 1)

\* The checksum bip39 takes from the hash of the entropy.
Mnemonic_checksum(entropy) == ((entropy * 5 + 3) \div 2) % 2

\* Mnemonic::from_entropy
Mnemonic_from_entropy(entropy) ==
    Ok(<<entropy \div (WordlistSize \div 2),
         (entropy % (WordlistSize \div 2)) * 2 + Mnemonic_checksum(entropy)>>)

\* A parser that looks the words up and skips the checksum.
Mnemonic_parse_unchecked(mnemonic_str) ==
    IF \E i \in DOMAIN mnemonic_str : mnemonic_str[i] >= WordlistSize
    THEN Err
    ELSE Ok(mnemonic_str)

\* Mnemonic::parse: Err for a word that is not in the list, Err for a wrong
\* checksum.
Mnemonic_parse(mnemonic_str) ==
    IF \E i \in DOMAIN mnemonic_str : mnemonic_str[i] >= WordlistSize
    THEN Err
    ELSE LET entropy == mnemonic_str[1] * (WordlistSize \div 2) + mnemonic_str[2] \div 2
         IN  IF mnemonic_str[2] % 2 # Mnemonic_checksum(entropy)
             THEN Err
             ELSE Ok(mnemonic_str)

\* Mnemonic::to_seed("")
to_seed(mnemonic) == ((mnemonic[1] * 7 + mnemonic[2] * 3) % SeedSpace) + 1

generate_from_mnemonic_internal(mnemonic) ==
    [seed |-> to_seed(mnemonic), out |-> generate_from_master_seed(to_seed(mnemonic))]

\* generate_from_mnemonic: "Bip39" where Mnemonic::parse(..)? returns the error.
generate_from_mnemonic(mnemonic_str) ==
    LET mnemonic == Mnemonic_parse(mnemonic_str)
    IN  IF ~mnemonic.ok
        THEN [seed |-> 0, out |-> [res |-> "Bip39"]]
        ELSE generate_from_mnemonic_internal(mnemonic.v)

\* generate_random, for the entropy the random generator filled in.
generate_random(entropy) ==
    LET mnemonic == Mnemonic_from_entropy(entropy)
    IN  IF ~mnemonic.ok
        THEN [seed |-> 0, out |-> [res |-> "Bip39"]]
        ELSE generate_from_mnemonic_internal(mnemonic.v)

\* verify: Ok(TRUE), Ok(FALSE), or Err where one of its three unwrap() panics.
\* Both sums are computed, and unwrapped, before they are compared.
verify(next_visible, next_hidden, prev_visible) ==
    LET hash == hash_of_two_pubkeys(prev_visible, next_hidden)
        diff == Scalar_from_be_bytes(hash)
        sum_odd == add_exp_tweak(public_key(next_hidden, "Odd"), diff.v)
        sum_even == add_exp_tweak(public_key(next_hidden, "Even"), diff.v)
    IN  IF ~diff.ok \/ ~sum_odd.ok \/ ~sum_even.ok
        THEN Err
        ELSE Ok(XOnly(sum_odd.v) = next_visible \/ XOnly(sum_even.v) = next_visible)

--------------------------------------------------------------------------
(* KeyState *)

levels(state_k) == Cardinality(DOMAIN state_k)

current_visible_pubkey(state_k, state_n) == vis_pubkey(state_k[state_n])

\* A secret-key getter that reads the hidden keypair of the current level.
current_visible_secret_key_hidden(state_k, state_n) == state_k[state_n].hid

current_visible_secret_key(state_k, state_n) == state_k[state_n].vis

\* Mutant of no_more_levels: the check is off by one, so level 0 is never used.
no_more_levels_early(state_n) == state_n <= 1

\* keys.rs:85  if self.n == 0
no_more_levels(state_n) == state_n = 0

\* keys.rs:90  let n_post = self.n - 1
n_post_of(state_n) == state_n - 1

\* Mutant of history_of: the slice starts at the new current level n_post.
history_from_n_post(state_k, n_prev) ==
    [j \in 1..(Cardinality(DOMAIN state_k) - n_prev + 1) |->
        x_only_public_key(state_k[n_prev + j - 2].vis)]

\* A history that lists the oldest invalidated level first.
history_levels_oldest_first(state_k, n_prev) ==
    [j \in 1..(levels(state_k) - n_prev) |-> levels(state_k) - j]

\* A history taken from the whole level table.
history_levels_whole_table(state_k, n_prev) ==
    [j \in 1..levels(state_k) |-> j - 1]

\* keys.rs:97  the levels of the slice self.k[n_prev..self.levels()], in its order
history_levels(state_k, n_prev) ==
    [j \in 1..(levels(state_k) - n_prev) |-> n_prev + j - 1]

\* keys.rs:97-101  self.k[n_prev..self.levels()] mapped to the visible pubkeys
history_of(state_k, n_prev) ==
    [j \in DOMAIN history_levels(state_k, n_prev) |->
        vis_pubkey(state_k[history_levels(state_k, n_prev)[j]])]

\* An invalidate() that returns the hidden pubkey of the level it switches to.
invalidate_levels_hidden_of_new(state_k, state_n) ==
    [revealed_vis |-> state_n,
     revealed_hid |-> n_post_of(state_n),
     new_vis |-> n_post_of(state_n),
     history |-> history_levels(state_k, state_n)]

\* keys.rs:89-101  the levels whose keypairs a successful invalidate() reads
\* for the four values it returns.
invalidate_levels(state_k, state_n) ==
    [revealed_vis |-> state_n,
     revealed_hid |-> state_n,
     new_vis |-> n_post_of(state_n),
     history |-> history_levels(state_k, state_n)]

\* Mutant of invalidate: with no level left, the cursor starts over at the top.
invalidate_wraps(state_k, state_n) ==
    IF state_n = 0
    THEN [res |-> "NoMoreKeyLevels", n |-> Cardinality(DOMAIN state_k) - 1]
    ELSE [res |-> "Ok",
          n |-> state_n - 1,
          val |-> <<x_only_public_key(state_k[state_n].vis),
                    x_only_public_key(state_k[state_n].hid),
                    x_only_public_key(state_k[state_n - 1].vis),
                    history_of(state_k, state_n)>>]

\* Mutant of invalidate: no check of n == 0, the decrement saturates at 0.
invalidate_saturating(state_k, state_n) ==
    LET n_post == IF state_n = 0 THEN 0 ELSE state_n - 1
    IN  [res |-> "Ok",
         n |-> n_post,
         val |-> <<x_only_public_key(state_k[state_n].vis),
                   x_only_public_key(state_k[state_n].hid),
                   x_only_public_key(state_k[n_post].vis),
                   history_of(state_k, state_n)>>]

\* Mutant of invalidate: the revealed keys are read through self.n after the
\* cursor moved, so they are the keys of the new level.
invalidate_reads_after_switch(state_k, state_n) ==
    IF state_n = 0
    THEN [res |-> "NoMoreKeyLevels", n |-> state_n]
    ELSE [res |-> "Ok",
          n |-> state_n - 1,
          val |-> <<x_only_public_key(state_k[state_n - 1].vis),
                    x_only_public_key(state_k[state_n - 1].hid),
                    x_only_public_key(state_k[state_n - 1].vis),
                    history_of(state_k, state_n)>>]

\* Mutant of invalidate: from an even level the cursor steps back up, to the
\* level invalidated before.
invalidate_steps_back_up(state_k, state_n) ==
    IF no_more_levels(state_n)
    THEN [res |-> "NoMoreKeyLevels", n |-> state_n, val |-> <<>>]
    ELSE LET n_post == IF state_n % 2 = 0 /\ state_n + 1 < levels(state_k)
                       THEN state_n + 1
                       ELSE state_n - 1
         IN  [res |-> "Ok",
              n |-> n_post,
              val |-> <<vis_pubkey(state_k[state_n]),
                        hid_pubkey(state_k[state_n]),
                        vis_pubkey(state_k[n_post]),
                        history_of(state_k, state_n)>>]

\* Mutant of invalidate: the decremented cursor is not written back.
invalidate_keeps_cursor(state_k, state_n) ==
    IF no_more_levels(state_n)
    THEN [res |-> "NoMoreKeyLevels", n |-> state_n, val |-> <<>>]
    ELSE [res |-> "Ok",
          n |-> state_n,
          val |-> <<vis_pubkey(state_k[state_n]),
                    hid_pubkey(state_k[state_n]),
                    vis_pubkey(state_k[n_post_of(state_n)]),
                    history_of(state_k, state_n)>>]

\* invalidate: the result and the cursor it leaves.
invalidate(state_k, state_n) ==
    IF no_more_levels(state_n)
    THEN [res |-> "NoMoreKeyLevels", n |-> state_n]
    ELSE LET n_prev == state_n
             n_post == n_post_of(state_n)
             from == invalidate_levels(state_k, state_n)
         IN  [res |-> "Ok",
              n |-> n_post,
              val |-> <<vis_pubkey(state_k[from.revealed_vis]),
                        hid_pubkey(state_k[from.revealed_hid]),
                        vis_pubkey(state_k[from.new_vis]),
                        history_of(state_k, n_prev)>>]

--------------------------------------------------------------------------
(* The state machine *)

Init ==
    /\ phase = "start"
    /\ seed = 0
    /\ k = <<>>
    /\ n = 0
    /\ ret = [op |-> "none"]
    /\ succ = 0
    /\ fails = 0
    /\ invalidated = <<>>
    /\ shown_vis = {}
    /\ shown_hid = {}
    /\ hist_levels = {}
    /\ reveal_log = <<>>

GenerateFromMasterSeed ==
    /\ phase = "start"
    /\ \E master_seed \in Seeds :
         LET r == generate_from_master_seed(master_seed)
         IN  /\ seed' = master_seed
             /\ ret' = [op |-> "generate", res |-> r.res]
             /\ IF r.res = "Ok"
                THEN /\ phase' = "ready"
                     /\ k' = r.state.k
                     /\ n' = r.state.n
                ELSE /\ phase' = (IF r.res = "panic" THEN "panicked" ELSE "failed")
                     /\ UNCHANGED <<k, n>>
    /\ UNCHANGED <<succ, fails, invalidated, handed>>

\* The strings generate_from_mnemonic is tried on: two words, of the list or not.
Phrases == [1..2 -> 0..MaxWord]

\* What a constructor that went through a mnemonic leaves behind.
Constructed(op, args, r) ==
    /\ seed' = r.seed
    /\ ret' = [op |-> op, res |-> r.out.res, args |-> args]
    /\ IF r.out.res = "Ok"
       THEN /\ phase' = "ready"
            /\ k' = r.out.state.k
            /\ n' = r.out.state.n
       ELSE /\ phase' = (IF r.out.res = "panic" THEN "panicked" ELSE "failed")
            /\ UNCHANGED <<k, n>>
    /\ UNCHANGED <<succ, fails, invalidated, handed>>

GenerateFromMnemonic ==
    /\ phase = "start"
    /\ \E mnemonic_str \in Phrases :
         Constructed("generate_from_mnemonic", mnemonic_str,
                     generate_from_mnemonic(mnemonic_str))

GenerateRandom ==
    /\ phase = "start"
    /\ \E entropy \in Entropies :
         Constructed("generate_random", entropy, generate_random(entropy))

CurrentVisiblePubkey ==
    /\ phase = "ready"
    /\ ret' = [op |-> "current_visible_pubkey", res |-> "Ok",
               val |-> current_visible_pubkey(k, n)]
    /\ shown_vis' = shown_vis \cup {n}
    /\ UNCHANGED <<phase, seed, k, n, succ, fails, invalidated>>
    /\ UNCHANGED <<shown_hid, hist_levels, reveal_log>>

CurrentVisibleSecretKey ==
    /\ phase = "ready"
    /\ ret' = [op |-> "current_visible_secret_key", res |-> "Ok",
               val |-> current_visible_secret_key(k, n)]
    /\ UNCHANGED <<phase, seed, k, n, succ, fails, invalidated, handed>>

Levels ==
    /\ phase = "ready"
    /\ ret' = [op |-> "levels", res |-> "Ok", val |-> levels(k)]
    /\ UNCHANGED <<phase, seed, k, n, succ, fails, invalidated, handed>>

\* The levels a function 1..m -> level lists.
LevelsIn(history) == {history[j] : j \in DOMAIN history}

\* invalidate() called by one of the holders of the KeyState; a call runs
\* from start to end with no other call in between (&mut self).
InvalidateBy(caller) ==
    /\ phase = "ready"
    /\ fails < MaxFailedCalls
    /\ LET r == invalidate(k, n)
           from == invalidate_levels(k, n)
       IN  /\ n' = r.n
           /\ IF r.res = "Ok"
              THEN /\ ret' = [op |-> "invalidate", res |-> "Ok", val |-> r.val]
                   /\ succ' = succ + 1
                   /\ invalidated' = r.val[4]
                   /\ shown_vis' = shown_vis \cup {from.revealed_vis, from.new_vis}
                                             \cup LevelsIn(from.history)
                   /\ shown_hid' = shown_hid \cup {from.revealed_hid}
                   /\ hist_levels' = hist_levels \cup LevelsIn(from.history)
                   /\ reveal_log' = Append(reveal_log,
                                           [caller |-> caller, level |-> from.revealed_vis])
                   /\ UNCHANGED fails
              ELSE /\ ret' = [op |-> "invalidate", res |-> r.res]
                   /\ fails' = fails + 1
                   /\ UNCHANGED <<succ, invalidated, handed>>
    /\ UNCHANGED <<phase, seed, k>>

\* invalidate() called by the owner of the KeyState.
Invalidate == InvalidateBy(0)

\* The third arguments verify is called with for the level just invalidated:
\* the new visible key, the hidden key of the new level, and some other keys.
PrevCandidates == {vis_pubkey(k[n]), hid_pubkey(k[n])} \cup (1..MaxProbe)

\* verify(k[n+1].vis, k[n+1].hid, X): the check of the last rotation.
Verify ==
    /\ phase = "ready"
    /\ n + 1 < levels(k)
    /\ \E prev_visible \in PrevCandidates :
         LET next_visible == vis_pubkey(k[n + 1])
             next_hidden == hid_pubkey(k[n + 1])
             r == verify(next_visible, next_hidden, prev_visible)
         IN  /\ ret' = [op |-> "verify",
                        res |-> (IF r.ok THEN "Ok" ELSE "panic"),
                        args |-> <<next_visible, next_hidden, prev_visible>>,
                        val |-> r.v]
             /\ phase' = (IF r.ok THEN "ready" ELSE "panicked")
    /\ UNCHANGED <<seed, k, n, succ, fails, invalidated, handed>>

Next ==
    \/ GenerateFromMasterSeed
    \/ GenerateFromMnemonic
    \/ GenerateRandom
    \/ CurrentVisiblePubkey
    \/ CurrentVisibleSecretKey
    \/ Levels
    \/ Invalidate
    \/ Verify

Spec == Init /\ [][Next]_vars

\* ---- one KeyState shared by several callers ----
\* invalidate() takes &mut self, so the calls of the callers that share a
\* KeyState run one after another, in any order. The shared chain is built by
\* generate_levels_internal from a few secret keys, to keep the orders of the
\* callers' calls enumerable.
Callers == 1..MaxCaller

SharedSecretKeys ==
    UNION {[0..(len - 1) -> 1..MaxSharedSecret] : len \in 2..SharedLevels}

GenerateLevels ==
    /\ phase = "start"
    /\ \E sk \in SharedSecretKeys :
         LET state == generate_levels_internal(sk)
         IN  /\ ret' = [op |-> "generate_levels_internal",
                        res |-> (IF state.ok THEN "Ok" ELSE "panic")]
             /\ IF state.ok
                THEN /\ phase' = "ready"
                     /\ k' = state.v.k
                     /\ n' = state.v.n
                ELSE /\ phase' = "panicked"
                     /\ UNCHANGED <<k, n>>
    /\ UNCHANGED <<seed, succ, fails, invalidated, handed>>

SharedInvalidate == \E caller \in Callers : InvalidateBy(caller)

NextShared ==
    \/ GenerateLevels
    \/ SharedInvalidate
    \/ CurrentVisibleSecretKey

SpecShared == Init /\ [][NextShared]_vars

--------------------------------------------------------------------------
(* Properties *)

\* A step that is a call of invalidate().
InvalidateCalled == succ' + fails' = succ + fails + 1

\* A KeyState exists (it outlives a panic of verify).
HasState == k # <<>>

\* C1: the cursor is always a valid index (0 <= n <= N-1), it is N-1 in the
\* state a generator returns, and no step makes it larger than it was.
C1_CursorInRangeAndNeverIncreases ==
    [][/\ (HasState' => n' \in 0..(levels(k') - 1))
       /\ (phase = "start" /\ phase' = "ready" => n' = levels(k') - 1)
       /\ (HasState => n' <= n)]_vars

C1_Witness == phase = "ready" /\ ret.op = "verify" /\ 0 < n /\ n < levels(k) - 1

\* C2: invalidate() called with n = 0 returns NoMoreKeyLevels and leaves the
\* KeyState unchanged: cursor 0, same table, same current visible pubkey.
C2_ExhaustedLeavesStateUnchanged ==
    [][(InvalidateCalled /\ n = 0) =>
          /\ ret'.op = "invalidate"
          /\ ret'.res = "NoMoreKeyLevels"
          /\ n' = 0
          /\ k' = k
          /\ current_visible_pubkey(k', n') = current_visible_pubkey(k, n)]_vars

C2_Witness == ret.op = "invalidate" /\ ret.res = "NoMoreKeyLevels" /\ fails = 1

\* C3: after succ successful invalidate() calls the cursor is N-1-succ; the
\* first N-1 calls succeed, and a call fails only after N-1 successes, with
\* the cursor at 0, so the N-th call and every later one fail.
C3_CursorCountsSuccesses ==
    HasState =>
        /\ n = levels(k) - 1 - succ
        /\ succ <= levels(k) - 1
        /\ (fails > 0 => succ = levels(k) - 1 /\ n = 0)
        /\ (ret.op = "invalidate" /\ succ < levels(k) - 1 => ret.res = "Ok")
        /\ (ret.op = "invalidate" /\ ret.res = "NoMoreKeyLevels" => fails > 0)

C3_Witness ==
    ret.op = "invalidate" /\ fails = MaxFailedCalls /\ succ = levels(k) - 1 /\ n = 0

\* C4: invalidate() called with n >= 1 moves the cursor down by one and
\* returns (visible pubkey of level n, hidden pubkey of level n, visible pubkey
\* of level n-1): its first component is the current visible pubkey before the
\* call, its third the current visible pubkey after it.
C4_InvalidateReturnsRevealedAndNew ==
    [][(InvalidateCalled /\ n >= 1) =>
          /\ ret'.op = "invalidate"
          /\ ret'.res = "Ok"
          /\ n' = n - 1
          /\ ret'.val[1] = vis_pubkey(k[n])
          /\ ret'.val[2] = hid_pubkey(k[n])
          /\ ret'.val[3] = vis_pubkey(k[n - 1])
          /\ ret'.val[1] = current_visible_pubkey(k, n)
          /\ ret'.val[3] = current_visible_pubkey(k', n')]_vars

C4_Witness ==
    /\ ret.op = "invalidate"
    /\ ret.res = "Ok"
    /\ ret.val[1] # ret.val[3]
    /\ ret.val[1] # ret.val[2]

\* C5: the triple a successful invalidate() returns passes verify, and so does
\* (visible_i, hidden_i, visible_{i-1}) for every level i in 1..N-1 of a chain.
C5_ChainVerifies ==
    /\ (ret.op = "invalidate" /\ ret.res = "Ok" =>
           LET r == verify(ret.val[1], ret.val[2], ret.val[3])
           IN  r.ok /\ r.v)
    /\ (HasState =>
           \A i \in 1..(levels(k) - 1) :
               LET r == verify(vis_pubkey(k[i]), hid_pubkey(k[i]), vis_pubkey(k[i - 1]))
               IN  r.ok /\ r.v)

\* C6: for every level i in 1..N-1 and every public key X other than
\* visible_{i-1}, verify(visible_i, hidden_i, X) returns false.
C6_WrongPrevIsRejected ==
    HasState =>
        \A i \in 1..(levels(k) - 1) :
            \A X \in XOnlyKeys \ {vis_pubkey(k[i - 1])} :
                LET r == verify(vis_pubkey(k[i]), hid_pubkey(k[i]), X)
                IN  r.ok /\ ~r.v

\* C7: verify is total: every call returns a boolean, an arithmetic failure
\* gives false and never a panic.
C7_VerifyNeverPanics ==
    ret.op = "verify" => ret.res = "Ok" /\ ret.val \in BOOLEAN

\* C8: chain construction returns an error, and no KeyState, when the
\* commitment scalar of some level i >= 1 is zero or not below the curve order:
\* it never panics and never accepts such a scalar.
C8_BadDiffReturnsError ==
    ret.op = "generate" =>
        /\ ret.res \in {"Ok", "Bip32", "CurveArithmeticOverflow"}
        /\ (ret.res = "Ok" =>
               \A i \in 1..(levels(k) - 1) :
                   LET hash == hash_of_two_pubkeys(vis_pubkey(k[i - 1]), hid_pubkey(k[i]))
                   IN  hash # 0 /\ hash < CurveOrder)

\* C9: level 0 has visible keypair = hidden keypair = keypair(raw[0]); every
\* level i >= 1 has hidden secret raw[i] and visible secret = hidden secret +
\* H(x(visible_{i-1}) || x(hidden_i)) mod the curve order, in every state.
C9_LevelsAreHashChained ==
    HasState =>
        LET intermediate_key == derive_from_path(seed).v
        IN  /\ k[0].hid = derive_child(intermediate_key, 0).v
            /\ k[0].vis = k[0].hid
            /\ \A i \in 1..(levels(k) - 1) :
                   /\ k[i].hid = derive_child(intermediate_key, i).v
                   /\ k[i].vis =
                        (k[i].hid + hash_of_two_pubkeys(vis_pubkey(k[i - 1]),
                                                        hid_pubkey(k[i]))) % CurveOrder

C9_Witness ==
    /\ phase = "ready"
    /\ succ > 1
    /\ fails = 0
    /\ ret.op = "current_visible_secret_key"
    /\ k[n].vis # k[n].hid

\* C10: the history a successful invalidate() returns has N-1-n_after
\* entries: the succ-th successful call returns succ entries, one more than the
\* successful call before it.
C10_HistoryLength ==
    [][(InvalidateCalled /\ ret'.res = "Ok") =>
          /\ Len(ret'.val[4]) = levels(k') - 1 - n'
          /\ Len(ret'.val[4]) = succ'
          /\ Len(ret'.val[4]) = Len(invalidated) + 1]_vars

C10_Witness ==
    /\ ret.op = "invalidate"
    /\ ret.res = "Ok"
    /\ succ = 3
    /\ Len(ret.val[4]) = 3

\* C11: the history a successful invalidate() returns starts with the visible
\* pubkey the same call returns as the revealed one, and continues with
\* exactly the history the previous successful invalidate() returned, in the
\* same order (nothing for the first call) - most recent first.
C11_HistoryMostRecentFirst ==
    [][(InvalidateCalled /\ ret'.res = "Ok") =>
          /\ Len(ret'.val[4]) = Len(invalidated) + 1
          /\ ret'.val[4][1] = ret'.val[1]
          /\ \A j \in 1..Len(invalidated) : ret'.val[4][j + 1] = invalidated[j]]_vars

\* A third successful invalidate(), whose history continues a history of two
\* different keys.
C11_Witness ==
    /\ ret.op = "invalidate"
    /\ ret.res = "Ok"
    /\ succ = 3
    /\ ret.val[4][2] # ret.val[4][3]
    /\ ret.val[4][1] # ret.val[4][3]

\* keys.rs:157-162  level 0's hidden keypair is a copy of its visible keypair,
\* so a call that returns level 0's visible pubkey returns its hidden pubkey.
SameKeypair(level) == level = 0 /\ k[0].hid = k[0].vis

\* The levels whose hidden pubkey the calls so far have returned.
HiddenReturned == shown_hid \cup {j \in shown_vis : SameKeypair(j)}

\* The levels that successful invalidate() calls have invalidated.
InvalidatedLevels == {reveal_log[j].level : j \in DOMAIN reveal_log}

C14_SecretKeyMatchesPubkey ==
    HasState =>
        /\ x_only_public_key(current_visible_secret_key(k, n)) = current_visible_pubkey(k, n)
        /\ ret.op = "current_visible_secret_key" =>
              x_only_public_key(ret.val) = current_visible_pubkey(k, n)
        /\ ret.op = "current_visible_pubkey" =>
              ret.val = x_only_public_key(current_visible_secret_key(k, n))

\* The secret key was read at a level reached by invalidation, whose hidden
\* key differs from its visible key.
C14_Witness ==
    /\ ret.op = "current_visible_secret_key"
    /\ succ >= 1
    /\ n >= 1
    /\ hid_pubkey(k[n]) # vis_pubkey(k[n])

\* C16: the level table is fixed once built: no operation changes it, so
\* levels() is the same N in every state, and N is 256 for a state built by
\* generate_random, generate_from_mnemonic or generate_from_master_seed.
C16_LevelTableIsFixed ==
    /\ [](HasState =>
             /\ levels(k) = N_DEFAULT
             /\ ret.op = "levels" => ret.val = N_DEFAULT)
    /\ [][HasState => k' = k]_vars

\* levels() was called after invalidations.
C16_Witness ==
    /\ ret.op = "levels"
    /\ ret.val = N_DEFAULT
    /\ succ >= 2

\* The words of a phrase that are not in the word list.
UnknownWords(mnemonic_str) ==
    {i \in DOMAIN mnemonic_str : mnemonic_str[i] \notin 0..(WordlistSize - 1)}

\* The phrases a valid entropy encodes to: those with a right checksum.
Encodings == {Mnemonic_from_entropy(entropy).v : entropy \in Entropies}

\* C18: generate_from_mnemonic on a phrase with an unknown word, or with
\* known words and a wrong checksum, returns the seed-material error (Bip39)
\* and builds no KeyState; a master seed is a [u8; 64], so there is no seed
\* of another length to construct from.
C18_BadMnemonicIsRefused ==
    (ret.op = "generate_from_mnemonic"
       /\ (UnknownWords(ret.args) # {} \/ ret.args \notin Encodings)) =>
        /\ ret.res = "Bip39"
        /\ ~HasState
        /\ phase = "failed"

\* A phrase of known words with a wrong checksum was refused.
C18_Witness ==
    /\ ret.op = "generate_from_mnemonic"
    /\ UnknownWords(ret.args) = {}
    /\ ret.args \notin Encodings
    /\ ret.res = "Bip39"
    /\ ~HasState

\* C17: callers that share one KeyState and whose invalidate() calls run one
\* at a time: in every order of their calls, each successful call reveals a
\* level no other successful call revealed, there are at most N-1 successful
\* calls, and the cursor is N-1 minus their number.
C17_SharedCallersRevealDistinctLevels ==
    HasState =>
        /\ \A i, j \in DOMAIN reveal_log :
              i # j => reveal_log[i].level # reveal_log[j].level
        /\ Len(reveal_log) = succ
        /\ succ <= levels(k) - 1
        /\ n = levels(k) - 1 - succ

\* Both callers have invalidated levels, their calls interleaved, and the
\* chain is used up: a further call has failed.
C17_Witness ==
    /\ HasState
    /\ n = 0
    /\ Len(reveal_log) = 3
    /\ reveal_log[1].caller = 1
    /\ reveal_log[2].caller = 2
    /\ reveal_log[3].caller = 1
    /\ fails > 0

\* Whether one of the two parity lifts P of next_hidden has
\* x_only(P + diff*G) = next_visible; the point at infinity has no x.
SomeLiftMatches(next_visible, next_hidden, prev_visible) ==
    LET diff == hash_of_two_pubkeys(prev_visible, next_hidden)
    IN  \E parity \in {"Odd", "Even"} :
            LET sum == (public_key(next_hidden, parity) + diff) % CurveOrder
            IN  sum # 0 /\ XOnly(sum) = next_visible

\* C19: verify returns true exactly when one of the two parity lifts of
\* next_hidden, moved by diff*G, has next_visible as its x-only key, and
\* returns false when neither has.
C19_VerifyDecidesByParityLifts ==
    ret.op = "verify" =>
        /\ ret.res = "Ok"
        /\ ret.val = SomeLiftMatches(ret.args[1], ret.args[2], ret.args[3])

\* C20: an invalidated key never becomes current again: the level whose key
\* current_visible_pubkey() returns is a level no returned history has listed
\* and no successful invalidate() has invalidated, and every successful
\* invalidate() invalidates a level from 1 to N-1 that none has invalidated
\* before.
C20_InvalidatedNeverCurrentAgain ==
    /\ [](HasState =>
             /\ n \notin hist_levels
             /\ n \notin InvalidatedLevels
             /\ ret.op = "current_visible_pubkey" => ret.val = vis_pubkey(k[n]))
    /\ [][(InvalidateCalled /\ ret'.res = "Ok") =>
             /\ Len(reveal_log') = Len(reveal_log) + 1
             /\ reveal_log'[Len(reveal_log')].level \in 1..(levels(k) - 1)
             /\ reveal_log'[Len(reveal_log')].level \notin InvalidatedLevels]_vars

\* Every level above 0 has been invalidated and listed in a history, and
\* current_visible_pubkey() has returned the key of level 0.
C20_Witness ==
    /\ ret.op = "current_visible_pubkey"
    /\ n = 0
    /\ hist_levels = 1..(levels(k) - 1)
    /\ InvalidatedLevels = 1..(levels(k) - 1)

====
